---- MODULE Spec2Model ----
(***************************************************************************)
(* Merkle single proofs and multiproofs of ssz-rs                          *)
(* (ssz-rs/src/merkleization/multiproofs.rs).                              *)
(*                                                                         *)
(* A Node is modelled symbolically: an input chunk is a one-element tuple  *)
(* <<n>>, and the SHA-256 of two concatenated nodes is the pair <<l, r>>,  *)
(* which makes the hash collision-free.  A call result is <<"Ok", v>>,     *)
(* <<"Err", kind>> or Panic (a failed `expect`).                           *)
(***************************************************************************)
EXTENDS Integers, Sequences, FiniteSets, TLC

\* ------------------------------------------------------------------ bounds
\* Depth of the caller's tree: target indices range over 0 .. 2^(MaxDepth+1) - 1.
MaxDepth == 2
\* Longest list of target indices.
MaxTargets == 2

MaxIndex == 2^(MaxDepth + 1) - 1

\* ------------------------------------------------------------- result type
Ok(v) == <<"Ok", v>>
Err(e) == <<"Err", e>>
Panic == <<"Panic", "contains index">>
IsOk(r) == r[1] = "Ok"
NoResult == <<"None", "">>

\* --------------------------------------------------------------- the hash
\* hasher.update(left); hasher.update(right); hasher.finalize_reset()
H(left, right) == <<left, right>>

\* ------------------------------------------- generalized index arithmetic
parent(i) == i \div 2

sibling(i) == IF i % 2 = 0 THEN i + 1 ELSE i - 1

get_bit(index, position) == (index \div (2^position)) % 2 = 1

RECURSIVE log_2(_)
log_2(i) == IF i <= 1 THEN 0 ELSE 1 + log_2(i \div 2)

get_path_length(index) ==
    IF index = 0 THEN Err("InvalidGeneralizedIndex") ELSE Ok(log_2(index))

BitOr1_dropped(key) == key

\* key | 1
BitOr1(key) == IF key % 2 = 0 THEN key + 1 ELSE key

\* ------------------------------------------------------------ collections
Range(s) == {s[k] : k \in DOMAIN s}

Max(S) == CHOOSE x \in S : \A y \in S : y <= x

Min(S) == CHOOSE x \in S : \A y \in S : x <= y

\* v.sort_by(|a, b| b.cmp(a)) on the elements of a HashSet / the keys of a
\* HashMap: the iteration order is lost in the sort, the elements are distinct.
RECURSIVE SortAsc(_)
SortAsc(S) == IF S = {} THEN <<>> ELSE <<Min(S)>> \o SortAsc(S \ {Min(S)})

RECURSIVE SortDesc(_)
SortDesc(S) == IF S = {} THEN <<>> ELSE <<Max(S)>> \o SortDesc(S \ {Max(S)})

EmptyMap == [i \in {} |-> <<0>>]

\* HashMap::insert / entry(k).or_default() followed by copy_from_slice
Insert(m, k, v) == [i \in (DOMAIN m) \cup {k} |-> IF i = k THEN v ELSE m[i]]

\* for (index, node) in ks.iter().zip(vs.iter()) { objects.insert(*index, *node) }
RECURSIVE InsertAll(_, _, _, _)
InsertAll(m, ks, vs, k) ==
    IF k > Len(ks) \/ k > Len(vs) THEN m
    ELSE InsertAll(Insert(m, ks[k], vs[k]), ks, vs, k + 1)

\* ------------------------------------------------------ branch, path, helper
RECURSIVE BranchLoop(_, _)
BranchLoop(focus, result) ==
    IF focus > 1
    THEN LET next == sibling(parent(focus)) IN BranchLoop(next, Append(result, next))
    ELSE result

get_branch_indices_untruncated(tree_index) ==
    BranchLoop(sibling(tree_index), <<sibling(tree_index)>>)

get_branch_indices(tree_index) ==
    LET result == BranchLoop(sibling(tree_index), <<sibling(tree_index)>>)
    IN  SubSeq(result, 1, Len(result) - 1)

RECURSIVE PathLoop(_, _)
PathLoop(focus, result) ==
    IF focus > 1
    THEN LET next == parent(focus) IN PathLoop(next, Append(result, next))
    ELSE result

get_path_indices(tree_index) ==
    LET result == PathLoop(tree_index, <<tree_index>>)
    IN  SubSeq(result, 1, Len(result) - 1)

get_helper_indices_ascending(idx) ==
    LET all_helper_indices == UNION {Range(get_branch_indices(idx[k])) : k \in DOMAIN idx}
        all_path_indices == UNION {Range(get_path_indices(idx[k])) : k \in DOMAIN idx}
    IN  SortAsc(all_helper_indices \ all_path_indices)

get_helper_indices(idx) ==
    LET all_helper_indices == UNION {Range(get_branch_indices(idx[k])) : k \in DOMAIN idx}
        all_path_indices == UNION {Range(get_path_indices(idx[k])) : k \in DOMAIN idx}
    IN  SortDesc(all_helper_indices \ all_path_indices)

\* ---------------------------------------------------------- single proofs
FoldStep_swapped(result, next, index, i) ==
    IF get_bit(index, i) THEN H(result, next) ELSE H(next, result)

\* One pass of `for (i, next) in proof.iter().enumerate()`; level = i + 1.
FoldStep(result, next, index, i) ==
    IF get_bit(index, i) THEN H(next, result) ELSE H(result, next)

RECURSIVE Fold(_, _, _, _)
Fold(result, prf, index, level) ==
    IF level > Len(prf) THEN result
    ELSE Fold(FoldStep(result, prf[level], index, level - 1), prf, index, level + 1)

\* The call with the number of hashes it computed.
calculate_merkle_root_run(leaf, prf, index) ==
    LET path_length == get_path_length(index) IN
    IF ~IsOk(path_length) THEN [ret |-> path_length, hashed |-> 0]
    ELSE IF path_length[2] # Len(prf) THEN [ret |-> Err("InvalidProof"), hashed |-> 0]
    ELSE [ret |-> Ok(Fold(leaf, prf, index, 1)), hashed |-> Len(prf)]

calculate_merkle_root(leaf, prf, index) == calculate_merkle_root_run(leaf, prf, index).ret

verify_merkle_proof(leaf, prf, index, rt) ==
    LET r == calculate_merkle_root(leaf, prf, index) IN
    IF ~IsOk(r) THEN r
    ELSE IF r[2] = rt THEN Ok("unit") ELSE Err("InvalidProof")

\* ------------------------------------------------------------- multiproofs
LengthsValid_leaves_only(lvs, prf, idx) == Len(lvs) = Len(idx)

\* The two length validations of calculate_multi_merkle_root.
LengthsValid(lvs, prf, idx) ==
    /\ Len(lvs) = Len(idx)
    /\ Len(prf) = Len(get_helper_indices(idx))

\* The map of known nodes and the work-list before the scan.
SeedObjects(lvs, prf, idx) ==
    InsertAll(InsertAll(EmptyMap, idx, lvs, 1), get_helper_indices(idx), prf, 1)

SortKeys_ascending(S) == SortAsc(S)

\* keys.sort_by(|a, b| b.cmp(a))
SortKeys(S) == SortDesc(S)

Seed(lvs, prf, idx) ==
    LET objs == SeedObjects(lvs, prf, idx)
    IN  [objects |-> objs, keys |-> SortKeys(DOMAIN objs), pos |-> 0, hashes |-> 0]

should_compute_parent_unchecked(objs, key) ==
    key \in DOMAIN objs /\ sibling(key) \in DOMAIN objs

should_compute(objs, key) ==
    LET key_present == key \in DOMAIN objs
        sibling_present == sibling(key) \in DOMAIN objs
        parent_missing == parent(key) \notin DOMAIN objs
    IN  key_present /\ sibling_present /\ parent_missing

\* One iteration of `while pos < keys.len()`.
ScanStep(st) ==
    LET key == st.keys[st.pos + 1]
        parent_index == parent(key)
    IN  IF should_compute(st.objects, key)
        THEN LET right_index == BitOr1(key)
                 left_index == sibling(right_index)
                 left_input == st.objects[left_index]
                 right_input == st.objects[right_index]
             IN  [objects |-> Insert(st.objects, parent_index, H(left_input, right_input)),
                  keys |-> Append(st.keys, parent_index),
                  pos |-> st.pos + 1,
                  hashes |-> st.hashes + 1]
        ELSE [st EXCEPT !.pos = st.pos + 1]

RECURSIVE RunScan(_)
RunScan(st) == IF st.pos < Len(st.keys) THEN RunScan(ScanStep(st)) ELSE st

\* *objects.get(&1).expect("contains index")
FinalLookup(objs) == IF 1 \in DOMAIN objs THEN Ok(objs[1]) ELSE Panic

calculate_multi_merkle_root_run(lvs, prf, idx) ==
    IF ~LengthsValid(lvs, prf, idx)
    THEN [ret |-> Err("InvalidProof"), hashed |-> 0]
    ELSE LET st == RunScan(Seed(lvs, prf, idx))
         IN  [ret |-> FinalLookup(st.objects), hashed |-> st.hashes]

calculate_multi_merkle_root(lvs, prf, idx) == calculate_multi_merkle_root_run(lvs, prf, idx).ret

VerifyOutcome_unchecked(r, rt) == IF ~IsOk(r) THEN r ELSE Ok("unit")

\* if calculate_multi_merkle_root(..)? == root { Ok(()) } else { Err(InvalidProof) }
VerifyOutcome(r, rt) ==
    IF ~IsOk(r) THEN r
    ELSE IF r[2] = rt THEN Ok("unit") ELSE Err("InvalidProof")

verify_merkle_multiproof(lvs, prf, idx, rt) ==
    VerifyOutcome(calculate_multi_merkle_root(lvs, prf, idx), rt)

\* -------------------------------------------------------- the hashed tree
\* The complete binary tree of depth MaxDepth over distinct chunks
\* (leafmod large) or repeating chunks (leafmod small).
RECURSIVE TreeNode(_, _)
TreeNode(i, m) ==
    IF i >= 2^MaxDepth THEN <<(i - 2^MaxDepth) % m>>
    ELSE H(TreeNode(2 * i, m), TreeNode(2 * i + 1, m))

\* ------------------------------------------------------------------ state
VARIABLES
    leafmod,    \* which tree the caller holds: its chunks are <<j % leafmod>>
    leaves,     \* argument `leaves`
    proof,      \* argument `proof`
    indices,    \* argument `indices`
    root,       \* argument `root` of the verify functions
    pc,         \* position of the call: idle, start, scan, calculated, verified, done
    objects,    \* the map of known nodes
    keys,       \* the work-list
    pos,        \* the cursor into the work-list
    hashes,     \* number of hashes computed by the multiproof call so far
    result,     \* what calculate_multi_merkle_root returned
    verdict,    \* what verify_merkle_multiproof returned
    single,     \* what calculate_merkle_root returned, with its hash count
    sverdict    \* what verify_merkle_proof returned

vars == <<leafmod, leaves, proof, indices, root, pc, objects, keys, pos, hashes,
          result, verdict, single, sverdict>>

\* ----------------------------------------------------------------- inputs
LeafMods == {1, 2^MaxDepth}

ZeroNode == <<0>>

JunkNode == <<99>>

NodeAt(i, m) == IF i >= 1 THEN TreeNode(i, m) ELSE ZeroNode

NodesAt(idx, m) == [k \in DOMAIN idx |-> NodeAt(idx[k], m)]

IndexSeqs == UNION {[1..n -> 0..MaxIndex] : n \in 0..MaxTargets}

Perturbations ==
    {"none", "leaf_short", "leaf_long", "leaf_subst", "proof_short", "proof_long", "proof_subst",
     "root_subst"}

Shorter(s) == IF Len(s) = 0 THEN s ELSE SubSeq(s, 1, Len(s) - 1)

Subst(s) == IF Len(s) = 0 THEN s ELSE [s EXCEPT ![1] = JunkNode]

Perturb(s, pt, kind) ==
    IF pt = kind \o "_short" THEN Shorter(s)
    ELSE IF pt = kind \o "_long" THEN Append(s, JunkNode)
    ELSE IF pt = kind \o "_subst" THEN Subst(s)
    ELSE s

Init ==
    /\ leafmod = 1
    /\ indices = <<>>
    /\ leaves = <<>>
    /\ proof = <<>>
    /\ root = ZeroNode
    /\ pc = "idle"
    /\ objects = EmptyMap
    /\ keys = <<>>
    /\ pos = 0
    /\ hashes = 0
    /\ result = NoResult
    /\ verdict = NoResult
    /\ single = [ret |-> NoResult, hashed |-> 0]
    /\ sverdict = NoResult

\* ---------------------------------------------------------------- actions
\* A caller holding a tree picks the target indices and passes the tree's nodes
\* at them and at the helper indices and the tree's root, possibly with one
\* list too short, too long or holding a foreign node, or with a foreign root.
Call ==
    /\ pc = "idle"
    /\ \E idx \in IndexSeqs, m \in LeafMods, pt \in Perturbations :
        /\ leafmod' = m
        /\ indices' = idx
        /\ leaves' = Perturb(NodesAt(idx, m), pt, "leaf")
        /\ proof' = Perturb(NodesAt(get_helper_indices(idx), m), pt, "proof")
        /\ root' = IF pt = "root_subst" THEN JunkNode ELSE TreeNode(1, m)
    /\ pc' = "start"
    /\ UNCHANGED <<objects, keys, pos, hashes, result, verdict, single, sverdict>>

\* calculate_multi_merkle_root up to the start of the scan.
Validate ==
    /\ pc = "start"
    /\ IF ~LengthsValid(leaves, proof, indices)
       THEN /\ result' = Err("InvalidProof")
            /\ pc' = "calculated"
            /\ UNCHANGED <<objects, keys, pos, hashes>>
       ELSE LET st == Seed(leaves, proof, indices) IN
            /\ objects' = st.objects
            /\ keys' = st.keys
            /\ pos' = st.pos
            /\ hashes' = st.hashes
            /\ pc' = "scan"
            /\ UNCHANGED result
    /\ UNCHANGED <<leafmod, leaves, proof, indices, root, verdict, single, sverdict>>

\* One iteration of the scan.
Step ==
    /\ pc = "scan"
    /\ pos < Len(keys)
    /\ LET st == ScanStep([objects |-> objects, keys |-> keys, pos |-> pos, hashes |-> hashes]) IN
        /\ objects' = st.objects
        /\ keys' = st.keys
        /\ pos' = st.pos
        /\ hashes' = st.hashes
    /\ UNCHANGED <<leafmod, leaves, proof, indices, root, pc, result, verdict, single, sverdict>>

\* The scan has reached the end of the work-list: look up index 1.
Finish ==
    /\ pc = "scan"
    /\ pos >= Len(keys)
    /\ result' = FinalLookup(objects)
    /\ pc' = "calculated"
    /\ UNCHANGED <<leafmod, leaves, proof, indices, root, objects, keys, pos, hashes,
                   verdict, single, sverdict>>

\* verify_merkle_multiproof compares the calculated root with the claimed one.
Verify ==
    /\ pc = "calculated"
    /\ verdict' = VerifyOutcome(result, root)
    /\ pc' = "verified"
    /\ UNCHANGED <<leafmod, leaves, proof, indices, root, objects, keys, pos, hashes,
                   result, single, sverdict>>

\* The same leaf, proof and index given to the single-proof functions.
Single ==
    /\ pc = "verified"
    /\ Len(leaves) = 1
    /\ Len(indices) = 1
    /\ single' = calculate_merkle_root_run(leaves[1], proof, indices[1])
    /\ sverdict' = verify_merkle_proof(leaves[1], proof, indices[1], root)
    /\ pc' = "done"
    /\ UNCHANGED <<leafmod, leaves, proof, indices, root, objects, keys, pos, hashes,
                   result, verdict>>

Next == Call \/ Validate \/ Step \/ Finish \/ Verify \/ Single

Spec == Init /\ [][Next]_vars

\* The scan is a sequential loop: an iteration that can run does run, and so
\* does the code after the loop.
FairSpec == Spec /\ WF_vars(Step) /\ WF_vars(Finish)

\* ------------------------------------------------------------ properties
Calculated == pc \in {"calculated", "verified", "done"}

Verified == pc \in {"verified", "done"}

\* The arguments are the caller's tree nodes at `indices` and at the helper indices.
HonestInputs ==
    /\ leaves = NodesAt(indices, leafmod)
    /\ proof = NodesAt(get_helper_indices(indices), leafmod)

\* floor(log2(i)) = d, stated without the recursion of log_2
AtDepth(i, d) == 2^d <= i /\ i < 2^(d + 1)

\* A non-empty list of distinct indices, all at one depth d >= 1.
DistinctLeavesOfOneDepth(idx) ==
    /\ Len(idx) >= 1
    /\ \E d \in 1..MaxDepth : \A k \in DOMAIN idx : AtDepth(idx[k], d)
    /\ \A j, k \in DOMAIN idx : j # k => idx[j] # idx[k]

\* C1: for distinct leaf indices of one depth, given in any order, with the
\* tree's nodes as leaves and as helper nodes, calculate_multi_merkle_root
\* returns Ok(the tree's node at index 1).
C1_MultiproofGenerality ==
    (Calculated /\ DistinctLeavesOfOneDepth(indices) /\ HonestInputs)
        => result = Ok(TreeNode(1, leafmod))

C1_Witness ==
    /\ Calculated
    /\ HonestInputs
    /\ DistinctLeavesOfOneDepth(indices)
    /\ Len(indices) = MaxTargets
    /\ AtDepth(indices[1], MaxDepth)
    /\ indices[1] < indices[Len(indices)]
    /\ parent(indices[1]) # parent(indices[Len(indices)])
    /\ leafmod > 1
    /\ result = Ok(TreeNode(1, leafmod))

\* C2: for a node index i >= 2 the tree's nodes at get_branch_indices(i) are a
\* proof of length path_length(i) that verify_merkle_proof accepts against the
\* tree's root, and the fold passes through the tree's nodes on the path of i
\* (the running result is the right input exactly when the bit of i is set).
C2_SingleProofRoundTrip ==
    (/\ pc = "done"
     /\ indices[1] >= 2
     /\ leaves[1] = TreeNode(indices[1], leafmod)
     /\ proof = NodesAt(get_branch_indices(indices[1]), leafmod))
        => /\ \E d \in 1..MaxDepth : AtDepth(indices[1], d) /\ Len(proof) = d
           /\ single.ret = Ok(TreeNode(1, leafmod))
           /\ root = TreeNode(1, leafmod) => sverdict = Ok("unit")
           /\ \A k \in 0..Len(proof) :
                Fold(leaves[1], SubSeq(proof, 1, k), indices[1], 1)
                    = TreeNode(indices[1] \div (2^k), leafmod)

C2_Witness ==
    /\ pc = "done"
    /\ indices[1] >= 2^MaxDepth
    /\ indices[1] % 4 = 2
    /\ leaves[1] = TreeNode(indices[1], leafmod)
    /\ proof = NodesAt(get_branch_indices(indices[1]), leafmod)
    /\ root = TreeNode(1, leafmod)
    /\ leafmod > 1
    /\ sverdict = Ok("unit")

RootCandidates ==
    {TreeNode(1, leafmod), JunkNode, ZeroNode} \cup (IF IsOk(result) THEN {result[2]} ELSE {})

\* C3: verify_merkle_multiproof returns Ok exactly when the calculation returns
\* Ok(r) with r = root; every other claimed root gives Err(InvalidProof); an
\* error of the calculation is returned unchanged.
C3_VerifyIffRootMatches ==
    Verified =>
        /\ verdict = Ok("unit") <=> (IsOk(result) /\ result[2] = root)
        /\ (IsOk(result) /\ result[2] # root) => verdict = Err("InvalidProof")
        /\ ~IsOk(result) => verdict = result
        /\ \A rt \in RootCandidates :
             verify_merkle_multiproof(leaves, proof, indices, rt) =
                IF ~IsOk(result) THEN result
                ELSE IF rt = result[2] THEN Ok("unit") ELSE Err("InvalidProof")

C3_Witness ==
    /\ Verified
    /\ Len(indices) = 2
    /\ indices[1] >= 2
    /\ indices[1] # indices[2]
    /\ IsOk(result)
    /\ result[2] # root
    /\ verdict = Err("InvalidProof")

\* C4: calculate_multi_merkle_root always returns Ok or a classified error,
\* and when both length validations pass the map holds index 1 at the end of
\* the scan, so the final lookup cannot fail.
C4_NoUnrecoverableFault ==
    /\ Calculated => result # Panic
    /\ (pc = "scan" /\ pos >= Len(keys)) => 1 \in DOMAIN objects

ReplacementNodes == {ZeroNode, JunkNode, H(ZeroNode, JunkNode)}

\* C5: once verify_merkle_multiproof has returned Ok, replacing any single
\* leaf or any single proof node by a different node makes it return
\* Err(InvalidProof).
C5_TamperSensitivity ==
    (Verified /\ verdict = Ok("unit")) =>
        /\ \A k \in DOMAIN leaves : \A n \in ReplacementNodes \ {leaves[k]} :
             verify_merkle_multiproof([leaves EXCEPT ![k] = n], proof, indices, root)
                = Err("InvalidProof")
        /\ \A k \in DOMAIN proof : \A n \in ReplacementNodes \ {proof[k]} :
             verify_merkle_multiproof(leaves, [proof EXCEPT ![k] = n], indices, root)
                = Err("InvalidProof")

\* C6: a length mismatch makes calculate_multi_merkle_root and (for an index
\* >= 1) calculate_merkle_root return Err(InvalidProof) before any node is
\* hashed, with no node stored and no root produced.
C6_LengthValidation ==
    /\ (pc \notin {"idle", "start"} /\ (Len(leaves) # Len(indices)
                         \/ Len(proof) # Len(get_helper_indices(indices))))
          => /\ Calculated
             /\ result = Err("InvalidProof")
             /\ hashes = 0
             /\ objects = EmptyMap
             /\ keys = <<>>
    /\ (pc = "done" /\ \E d \in 0..MaxDepth : AtDepth(indices[1], d) /\ Len(proof) # d)
          => /\ single = [ret |-> Err("InvalidProof"), hashed |-> 0]
             /\ sverdict = Err("InvalidProof")

C6_Witness ==
    /\ pc = "done"
    /\ indices[1] >= 2
    /\ Len(proof) = Len(get_helper_indices(indices)) + 1
    /\ result = Err("InvalidProof")
    /\ single.ret = Err("InvalidProof")

ProofSeqs == UNION {[1..n -> {ZeroNode, JunkNode}] : n \in 0..(MaxDepth + 1)}

\* C7: for one index i >= 1 the multiproof calculation and the single-proof
\* calculation return the same result for the same leaf and proof, the helper
\* indices of [i] are the branch indices of i in the same order, and for
\* i = 1 with an empty proof both return the leaf.
C7_SingleIndexAgreement ==
    (pc = "done" /\ indices[1] >= 1) =>
        /\ single.ret = result
        /\ get_helper_indices(indices) = get_branch_indices(indices[1])
        /\ \A prf \in ProofSeqs :
             calculate_multi_merkle_root(leaves, prf, indices)
                = calculate_merkle_root(leaves[1], prf, indices[1])
        /\ (indices[1] = 1 /\ proof = <<>>) => result = Ok(leaves[1])

C7_Witness ==
    /\ pc = "done"
    /\ AtDepth(indices[1], MaxDepth)
    /\ IsOk(result)
    /\ single.ret = result
    /\ leafmod > 1

IsDescending(s) == \A j, k \in DOMAIN s : j < k => s[j] > s[k]

\* The part of the work-list that was there when the scan started.
SeededLen == Len(keys) - hashes

\* C8 (as stated): the work-list is in descending order at every step of the scan.
C8_KeysAlwaysDescending == pc = "scan" => IsDescending(keys)

\* C8 (amended): the work-list is in strictly descending order when the scan
\* starts and that seeded part stays so; each computed parent is appended at
\* the end, whatever its value, and is the parent of an index the cursor has
\* passed.
C8_SeededPartDescending ==
    pc = "scan" =>
        /\ SeededLen >= 0
        /\ IsDescending(SubSeq(keys, 1, SeededLen))
        /\ pos = 0 => SeededLen = Len(keys)
        /\ \A j \in (SeededLen + 1)..Len(keys) :
             \E k \in 1..pos : k < j /\ keys[j] = parent(keys[k])

C8_Witness ==
    /\ pc = "scan"
    /\ pos = Len(keys)
    /\ hashes >= 2
    /\ SeededLen >= 3
    /\ ~IsDescending(keys)
    /\ IsDescending(SubSeq(keys, 1, SeededLen))

\* a is t or an ancestor of t, stated without parent()
AncestorOrSelf(a, t) == \E k \in 0..(MaxDepth + 1) : t \div (2^k) = a

ProperAncestors(idx) ==
    {a \in 1..MaxIndex : \E k \in DOMAIN idx : a # idx[k] /\ AncestorOrSelf(a, idx[k])}

\* x and a are the two children of one node
SiblingOf(x, a) == x # a /\ x \div 2 = a \div 2

HelperSetOf(idx) ==
    {x \in 0..MaxIndex :
        /\ \E k \in DOMAIN idx : \E a \in 2..MaxIndex :
              AncestorOrSelf(a, idx[k]) /\ SiblingOf(x, a)
        /\ \A k \in DOMAIN idx : ~AncestorOrSelf(x, idx[k])}

Reverse(s) == [k \in DOMAIN s |-> s[Len(s) + 1 - k]]

\* C9: for indices >= 2 get_helper_indices returns, strictly descending, exactly
\* the siblings of the targets and of their non-root ancestors that are neither
\* a target nor an ancestor of one; it holds neither 0 nor 1 and depends only
\* on the set of indices.
C9_HelperSet ==
    (pc = "calculated" /\ \A k \in DOMAIN indices : indices[k] >= 2) =>
        LET helper == get_helper_indices(indices) IN
        /\ IsDescending(helper)
        /\ Range(helper) = HelperSetOf(indices)
        /\ 0 \notin Range(helper) /\ 1 \notin Range(helper)
        /\ get_helper_indices(Reverse(indices)) = helper
        /\ get_helper_indices(indices \o indices) = helper
        /\ get_helper_indices(SortAsc(Range(indices))) = helper

C9_Witness ==
    /\ pc = "calculated"
    /\ IsOk(result)
    /\ Len(indices) = 2
    /\ indices[1] >= 2
    /\ indices[1] < indices[2]
    /\ parent(indices[1]) # parent(indices[2])
    /\ AtDepth(indices[2], MaxDepth)
    /\ Len(get_helper_indices(indices)) >= 2
    /\ Range(get_helper_indices(indices)) = HelperSetOf(indices)

NoDuplicates(s) == \A j, k \in DOMAIN s : j # k => s[j] # s[k]

ScanBounded ==
    pc = "scan" =>
        /\ pos <= Len(keys)
        /\ NoDuplicates(keys)
        /\ Range(keys) = DOMAIN objects
        /\ hashes <= Cardinality(ProperAncestors(indices))
        /\ Len(keys) <= Cardinality(Range(indices) \cup Range(get_helper_indices(indices)))
                          + Cardinality(ProperAncestors(indices))

ScanAppendOnly ==
    (pc = "scan" /\ pc' = "scan") =>
        /\ pos' = pos + 1
        /\ \A i \in DOMAIN objects : i \in DOMAIN objects' /\ objects'[i] = objects[i]
        /\ \/ keys' = keys /\ objects' = objects /\ hashes' = hashes
           \/ \E p \in (DOMAIN objects') \ (DOMAIN objects) :
                /\ keys' = Append(keys, p)
                /\ DOMAIN objects' = (DOMAIN objects) \cup {p}
                /\ hashes' = hashes + 1

\* C10: once the length validations have passed the scan reaches the end of the
\* work-list; it only appends: the cursor advances by one per step, an index
\* enters the work-list at most once, no map entry is overwritten or removed,
\* and at most one hash per distinct proper ancestor of the targets is computed.
C10_ScanTerminatesAppendOnly ==
    /\ []ScanBounded
    /\ [][ScanAppendOnly]_vars
    /\ (pc = "scan") ~> (pc = "calculated")

C10_Witness ==
    /\ pc = "calculated"
    /\ Len(indices) = 2
    /\ hashes = Cardinality(ProperAncestors(indices))
    /\ hashes >= MaxDepth + 1
    /\ Len(keys) = pos

====
